---- MODULE Spec2Model ----
(***************************************************************************)
(* Batch embedding and similarity-graph construction pipeline.             *)
(*                                                                         *)
(* Four programs of the repository are modelled over one set of            *)
(* variables, each with its own specification:                             *)
(*   SpecResolve  the two similarity resolvers (create_similarity_edges   *)
(*                of similarity_edges.py and of code_graph_builder.py)     *)
(*   SpecWrite    the two vector store writers (process_pages,             *)
(*                process_files)                                           *)
(*   SpecNodes    the two node materializers (create_page_nodes,           *)
(*                create_code_nodes)                                       *)
(*   SpecRel      graph_builder.main up to create_relationships            *)
(* Document keys (notion_id, relative_path) are the integers 1..NumDocs;   *)
(* their integer order stands for the string order of the keys.  Scores    *)
(* are integers in units of 1/10000.                                       *)
(***************************************************************************)
EXTENDS Integers, Sequences, FiniteSets, TLC

VARIABLES
    \* ---- similarity resolvers
    resolver,    \* "page" (similarity_edges.py) or "code" (code_graph_builder.py)
    top_k,       \* TOP_K / TOP_K_SIMILAR, scaled down
    vector,      \* the vector index: document key -> stored vector
    order,       \* internal order of the index: scan order, and rank among equal scores
    nodes,       \* the graph store: key -> number of nodes carrying that key
    similar,     \* the graph store: <<src, dst>> -> [n: number of SIMILAR_TO edges, score]
    rpc,         \* position of the resolver
    pidx,        \* index into all_points of the next pivot
    pass,        \* 1 or 2: which run of the resolver this is
    rstats,      \* stats of create_similarity_edges: created, skipped
    resolved,    \* pairs <<pivot, hit>> with score >= threshold seen in this pass
    lastPivot,   \* what the last pivot evaluation did
    snapshot,    \* SIMILAR_TO edges at the end of the first pass
    changed,     \* a vector was re-embedded between the passes
    faulted,     \* a store failure has been injected (at most one, in the first run)
    \* ---- vector store writers
    writer,      \* "pages" (vector_store.py) or "files" (code_embedder.py)
    nvalid,      \* len(valid_pages) / len(valid_files)
    widx,        \* i of the chunk loop
    points,      \* the in-memory buffer of points: [id, uuid, vector]
    wstats,      \* stats: processed, errors
    stored,      \* the vector index: the points of the collection
    stale,       \* the points the collection held before the run
    wfirst,      \* the point ids a first call left, once a second call has begun
    wpc,         \* position of the writer
    lastStep,    \* what the last chunk iteration did
    wobs,        \* what the writer did so far: made (documents given a point),
                 \* lost (documents of chunks whose embedding failed), sent
                 \* (document -> upsert calls that carried its point), ufail
                 \* (an upsert call has raised)
    \* ---- node materializers
    builder,     \* "page" (graph_builder.py) or "code" (code_graph_builder.py)
    records,     \* the input list: pages / points, as their external ids
    nidx,        \* index of the next record
    constraint,  \* the uniqueness constraint on the external id is installed
    nstats,      \* stats: created, errors
    npc,         \* position of the materializer
    run,         \* 1 or 2: which invocation of the builder this is
    empty,       \* the documents whose title and body are both empty
    flaky,       \* the graph store may refuse a write for a transient reason
    refs,        \* page id -> [parent: parent.page_id (0: none), links: page["links"]]
    childOf,     \* the graph store: <<child, parent>> -> number of CHILD_OF edges
    linksTo,     \* the graph store: <<from, to>> -> number of LINKS_TO edges
    relstats,    \* stats of create_relationships: child_of, links_to, errors
    ridx,        \* index of the next page of create_relationships
    lastRel,     \* what the last iteration of create_relationships did
    \* ---- full scan of the vector index
    npoints,     \* points of the collection, numbered in the order of the scroll
    limit,       \* page size of a scroll call (the source passes 100), scaled down
    offset,      \* the cursor for the next scroll call (0: None)
    fetched,     \* all_points / points: what the loop has collected
    gaps,        \* empty pages the store may still answer before its last page
    \* ---- text normalizers
    normalizer,  \* "page" (prepare_text_for_embedding) or "code" (prepare_code_for_embedding)
    title,       \* page title, resp. metadata file_name: a sequence of characters
    modname,     \* metadata module
    body,        \* page content, resp. file content
    max_chars,   \* MAX_TEXT_LENGTH * 2, resp. MAX_CHARS, scaled down
    text,        \* the normalizer's result
    tpc,         \* position: "ready", "done"
    \* ---- startup of the programs
    program,     \* the script that is run
    env,         \* which preconditions hold
    mstep,       \* index of the next step of the program
    mpc,         \* "starting", "aborted", "working"
    issued       \* writes and deletes issued to the vector index and the graph store

rvars == <<resolver, top_k, vector, order, similar, rpc, pidx, pass, rstats,
           resolved, lastPivot, snapshot, changed, faulted>>
wvars == <<writer, nvalid, widx, points, wstats, stored, wpc, lastStep, wobs,
           stale, wfirst>>
dvars == <<empty, flaky, refs>>
evars == <<childOf, linksTo, relstats, ridx, lastRel>>
nvars == <<builder, records, nidx, constraint, nstats, npc, run, dvars, evars>>
svars == <<npoints, limit, offset, fetched, gaps>>
tvars == <<normalizer, title, modname, body, max_chars, text, tpc>>
mvars == <<program, env, mstep, mpc, issued>>
ovars == <<svars, tvars, mvars>>
vars == <<rvars, wvars, nvars, nodes, ovars>>

\* ------------------------------------------------------------------ bounds
NumDocs == 3      \* documents in the vector index
MaxTopK == 2      \* top_k ranges over 1..MaxTopK (the source sets TOP_K = 5, TOP_K_SIMILAR = 10)
MaxValid == 21    \* valid documents handed to a writer: 0..MaxValid
MaxRecords == 3   \* records handed to a node materializer: 0..MaxRecords
MaxPages == 2     \* pages handed to create_relationships: 0..MaxPages
MaxPoints == 4    \* points of the collection that is scanned: 0..MaxPoints
MaxLimit == 2     \* page size of a scroll call: 1..MaxLimit (the source passes 100)
MaxName == 1      \* characters of a title, file name or module name: 0..MaxName
MaxBody == 2      \* characters of a body: 0..MaxBody
MaxCap == 12      \* character cap of a normalizer: 1..MaxCap (the source has 4096 and 8000)

Docs == 1..NumDocs
Pairs == Docs \X Docs
Min(a, b) == IF a < b THEN a ELSE b

\* --------------------------------------------------------- the vector index
\* Stored vectors are abstracted to points of a line; the cosine score of two
\* vectors falls with their distance: identical vectors score 1.0, then 0.92,
\* 0.9004, 0.9, and 0.3 from distance 4 on (units of 1/10000).
Vectors == {0, 2, 4}

Score(v, w) ==
    LET d == IF v < w THEN w - v ELSE v - w
    IN  IF d = 0 THEN 10000
        ELSE IF d = 1 THEN 9200
        ELSE IF d = 2 THEN 9004
        ELSE IF d = 3 THEN 9000
        ELSE 3000

\* The corpus A < B < C with sim(A,B) = 0.9, sim(B,C) = 0.92, sim(A,C) = 0.3;
\* any further document is far from all of them.
ScenarioVectors ==
    [d \in Docs |-> IF d = 1 THEN 0 ELSE IF d = 2 THEN 3 ELSE 4 * (d - 2)]

SIMILARITY_THRESHOLD == 7500

\* round(hit.score, 3): to the nearest multiple of 0.001
Round3(s) == ((s + 5) \div 10) * 10

\* Position of a point in the index's internal order.
IndexPos(d) == IF order = "asc" THEN d ELSE NumDocs + 1 - d

\* The full scan: every stored point once, in the index's order.
all_points == [k \in 1..NumDocs |-> CHOOSE d \in Docs : IndexPos(d) = k]

\* x is ranked before y in the answer to a query by p's vector: by descending
\* score, equal scores in the index's internal order.
Before(p, x, y) ==
    \/ Score(vector[x], vector[p]) > Score(vector[y], vector[p])
    \/ /\ Score(vector[x], vector[p]) = Score(vector[y], vector[p])
       /\ IndexPos(x) < IndexPos(y)

RankPos(p, x) == 1 + Cardinality({y \in Docs : Before(p, y, x)})

\* query_points(query = p's vector, limit = top_k + 1)
query_points(p) ==
    [k \in 1..Min(NumDocs, top_k + 1) |-> CHOOSE x \in Docs : RankPos(p, x) = k]

\* ---------------------------------------------------------- the graph store
EmptyGraph == [e \in Pairs |-> [n |-> 0, score |-> 0]]

\* MATCH (a {key: s}) MATCH (b {key: d}): the number of rows
MatchRows(s, d) == IF nodes[s] > 0 /\ nodes[d] > 0 THEN 1 ELSE 0

\* MERGE replaced by CREATE: an edge is added whether or not one exists
MergeEdge_Create(g, s, d, sc) ==
    IF MatchRows(s, d) = 0 THEN g
    ELSE [g EXCEPT ![<<s, d>>] = [n |-> @.n + 1, score |-> sc]]

\* MERGE (a)-[r:SIMILAR_TO]->(b) SET r.score = sc, for the matched rows
MergeEdge(g, s, d, sc) ==
    IF MatchRows(s, d) = 0 THEN g
    ELSE [g EXCEPT ![<<s, d>>] =
             [n |-> IF @.n = 0 THEN 1 ELSE @.n, score |-> sc]]

\* ------------------------------------------- one pivot of the two resolvers
\* "if similar_id == notion_id: continue" / "if str(hit.id) == str(point.id)"
IsSelf_Never(p, hit) == FALSE

\* self recognised by the score: whatever scores like the pivot itself
IsSelf_ByScore(p, hit) == Score(vector[hit], vector[p]) = Score(vector[p], vector[p])

IsSelf(p, hit) == hit = p

\* "if hit.score < SIMILARITY_THRESHOLD"
BelowThreshold(sc) == sc < SIMILARITY_THRESHOLD

\* The accumulator of a pivot's loop over its hits.  res, writes and written
\* observe the loop (written: the hits whose write was carried out); raised
\* says that a write raised.
Acc0 == [sim |-> similar, created |-> rstats.created, skipped |-> rstats.skipped,
         writes |-> 0, written |-> {}, res |-> {}, raised |-> FALSE]

\* similarity_edges.py: for hit in results.points.  wf is the position of the
\* hit whose write raises (0: none); the exception is swallowed per write.
RECURSIVE PageHits(_, _, _, _, _)
PageHits(p, hits, k, wf, acc) ==
    IF k > Len(hits) THEN acc
    ELSE LET hit == hits[k]
             sc  == Score(vector[hit], vector[p])
         IN  IF IsSelf(p, hit) THEN PageHits(p, hits, k + 1, wf, acc)
             ELSE IF BelowThreshold(sc)
                  THEN PageHits(p, hits, k + 1, wf, [acc EXCEPT !.skipped = @ + 1])
             ELSE IF wf = k
                  THEN PageHits(p, hits, k + 1, wf,
                           [acc EXCEPT !.writes = @ + 1, !.raised = TRUE,
                                       !.res = @ \cup {<<p, hit>>}])
             ELSE PageHits(p, hits, k + 1, wf,
                      [acc EXCEPT !.sim = MergeEdge(@, p, hit, Round3(sc)),
                                  !.created = @ + MatchRows(p, hit),
                                  !.writes = @ + 1,
                                  !.written = @ \cup {hit},
                                  !.res = @ \cup {<<p, hit>>}])

\* code_graph_builder.py: for hit in results.points.  A write is issued only
\* when the pivot's path precedes the hit's; a write's exception leaves the
\* loop (the try encloses the whole pivot).
RECURSIVE CodeHits(_, _, _, _, _)
CodeHits(p, hits, k, wf, acc) ==
    IF k > Len(hits) THEN acc
    ELSE LET hit  == hits[k]
             sc   == Score(vector[hit], vector[p])
             acc1 == [acc EXCEPT !.res = @ \cup {<<p, hit>>}]
         IN  IF IsSelf(p, hit) THEN CodeHits(p, hits, k + 1, wf, acc)
             ELSE IF BelowThreshold(sc)
                  THEN CodeHits(p, hits, k + 1, wf, [acc EXCEPT !.skipped = @ + 1])
             ELSE IF ~(p < hit) THEN CodeHits(p, hits, k + 1, wf, acc1)
             ELSE IF wf = k
                  THEN [acc1 EXCEPT !.writes = @ + 1, !.raised = TRUE]
             ELSE CodeHits(p, hits, k + 1, wf,
                      [acc1 EXCEPT !.sim = MergeEdge(@, p, hit, sc),
                                   !.created = @ + MatchRows(p, hit),
                                   !.writes = @ + 1,
                                   !.written = @ \cup {hit}])

\* What a pivot's evaluation did: the pivot, the answer of the index, the
\* writes issued and carried out, stats["skipped"] before it, whether the
\* query raised, whether a write raised.
Pivot(p, hits, writes, written, qfailed, raised) ==
    [p |-> p, hits |-> hits, writes |-> writes, written |-> written,
     skipped0 |-> rstats.skipped, qfailed |-> qfailed, raised |-> raised]

NoPivot == [p |-> 0, hits |-> <<>>, writes |-> 0, written |-> {}, skipped0 |-> 0,
            qfailed |-> FALSE, raised |-> FALSE]

\* session.run("MATCH ()-[r:SIMILAR_TO]->() DELETE r"), then the loop starts
PageClear ==
    /\ rpc = "start" /\ resolver = "page"
    /\ similar' = EmptyGraph
    /\ rstats' = [created |-> 0, skipped |-> 0]
    /\ resolved' = {}
    /\ pidx' = 1
    /\ rpc' = "pivots"
    /\ lastPivot' = NoPivot
    /\ UNCHANGED <<resolver, top_k, vector, order, pass, snapshot, changed, faulted,
                   nodes, wvars, nvars, ovars>>

\* code_graph_builder.create_similarity_edges up to its loop: nothing is deleted
CodeBegin ==
    /\ rpc = "start" /\ resolver = "code"
    /\ rstats' = [created |-> 0, skipped |-> 0]
    /\ resolved' = {}
    /\ pidx' = 1
    /\ rpc' = "pivots"
    /\ lastPivot' = NoPivot
    /\ UNCHANGED <<resolver, top_k, vector, order, similar, pass, snapshot, changed,
                   faulted, nodes, wvars, nvars, ovars>>

\* One iteration of "for point in all_points" of similarity_edges.py.  The
\* query is outside every try: its exception ends the pass.
PagePivot ==
    /\ rpc = "pivots" /\ resolver = "page" /\ pidx <= NumDocs
    /\ LET p    == all_points[pidx]
           hits == query_points(p)
       IN \E qf \in BOOLEAN, wf \in 0..(top_k + 1) :
         /\ (qf \/ wf # 0) => (~faulted /\ pass = 1)
         /\ ~(qf /\ wf # 0)
         /\ LET r == PageHits(p, hits, 1, wf, Acc0)
            IN  IF qf
                THEN /\ rpc' = "crashed"
                     /\ faulted' = TRUE
                     /\ lastPivot' = Pivot(p, <<>>, 0, {}, TRUE, FALSE)
                     /\ UNCHANGED <<similar, rstats, resolved, pidx>>
                ELSE /\ similar' = r.sim
                     /\ rstats' = [created |-> r.created, skipped |-> r.skipped]
                     /\ resolved' = resolved \cup r.res
                     /\ pidx' = pidx + 1
                     /\ faulted' = (faulted \/ r.raised)
                     /\ lastPivot' = Pivot(p, hits, r.writes, r.written, FALSE, r.raised)
                     /\ UNCHANGED rpc
    /\ UNCHANGED <<resolver, top_k, vector, order, pass, snapshot, changed,
                   nodes, wvars, nvars, ovars>>

\* One iteration of "for point in points" of code_graph_builder.py.  The try
\* encloses the query and the loop over the hits.
CodePivot ==
    /\ rpc = "pivots" /\ resolver = "code" /\ pidx <= NumDocs
    /\ LET p    == all_points[pidx]
           hits == query_points(p)
       IN \E qf \in BOOLEAN, wf \in 0..(top_k + 1) :
         /\ (qf \/ wf # 0) => (~faulted /\ pass = 1)
         /\ ~(qf /\ wf # 0)
         /\ LET r == CodeHits(p, hits, 1, wf, Acc0)
            IN  IF qf
                THEN /\ faulted' = TRUE
                     /\ lastPivot' = Pivot(p, <<>>, 0, {}, TRUE, FALSE)
                     /\ UNCHANGED <<similar, rstats, resolved>>
                ELSE /\ similar' = r.sim
                     /\ rstats' = [created |-> r.created, skipped |-> r.skipped]
                     /\ resolved' = resolved \cup r.res
                     /\ faulted' = (faulted \/ r.raised)
                     /\ lastPivot' = Pivot(p, hits, r.writes, r.written, FALSE, r.raised)
         /\ pidx' = pidx + 1
    /\ UNCHANGED <<resolver, top_k, vector, order, rpc, pass, snapshot, changed,
                   nodes, wvars, nvars, ovars>>

\* The loop is exhausted: the resolver returns.
ResolveDone ==
    /\ rpc = "pivots" /\ pidx > NumDocs
    /\ rpc' = "done"
    /\ snapshot' = IF pass = 1 THEN similar ELSE snapshot
    /\ UNCHANGED <<resolver, top_k, vector, order, similar, pidx, pass, rstats,
                   resolved, lastPivot, changed, faulted, nodes, wvars, nvars, ovars>>

\* Between two runs a document is edited and the writer stores its new vector.
\* (Explored after a first run without failures.)
Reembed ==
    /\ rpc = "done" /\ pass = 1 /\ ~changed /\ ~faulted
    /\ \E d \in Docs, v \in Vectors :
         /\ v # vector[d]
         /\ vector' = [vector EXCEPT ![d] = v]
    /\ changed' = TRUE
    /\ UNCHANGED <<resolver, top_k, order, similar, rpc, pidx, pass, rstats,
                   resolved, lastPivot, snapshot, faulted, nodes, wvars, nvars, ovars>>

\* The resolver is run a second time.
Rerun ==
    /\ rpc = "done" /\ pass = 1
    /\ pass' = 2
    /\ rpc' = "start"
    /\ UNCHANGED <<resolver, top_k, vector, order, similar, pidx, rstats,
                   resolved, lastPivot, snapshot, changed, faulted, nodes, wvars, nvars, ovars>>

\* Idle values of the other programs' variables.
ScanIdle ==
    /\ npoints = 0 /\ limit = 1 /\ offset = 0 /\ fetched = <<>> /\ gaps = 0

TextIdle ==
    /\ normalizer = "page" /\ title = <<>> /\ modname = <<>> /\ body = <<>>
    /\ max_chars = 0 /\ text = <<>> /\ tpc = "idle"

MainIdle ==
    /\ program = "none" /\ env = <<>> /\ mstep = 1 /\ mpc = "idle" /\ issued = 0

OthersIdle == ScanIdle /\ TextIdle /\ MainIdle

WriterIdle ==
    /\ writer = "pages" /\ nvalid = 0 /\ widx = 0 /\ points = <<>>
    /\ wstats = [processed |-> 0, errors |-> 0] /\ stored = {}
    /\ wpc = "idle" /\ lastStep = [kind |-> "none"]
    /\ wobs = [made |-> {}, lost |-> 0, sent |-> <<>>, ufail |-> FALSE]
    /\ stale = {} /\ wfirst = [second |-> FALSE]

NoRefs == [d \in Docs |-> [parent |-> 0, links |-> {}]]

NoEdges == [e \in Pairs |-> 0]

NoRel == [page |-> 0]

RelIdle ==
    /\ childOf = NoEdges /\ linksTo = NoEdges
    /\ relstats = [child_of |-> 0, links_to |-> 0, errors |-> 0]
    /\ ridx = 1 /\ lastRel = NoRel

NodesIdle ==
    /\ builder = "page" /\ records = <<>> /\ nidx = 1 /\ constraint = FALSE
    /\ nstats = [created |-> 0, errors |-> 0] /\ npc = "idle" /\ run = 1
    /\ empty = {} /\ flaky = FALSE /\ refs = NoRefs /\ RelIdle

ResolverIdle ==
    /\ resolver = "page" /\ top_k = 1 /\ vector = [d \in Docs |-> 0]
    /\ order = "asc" /\ similar = EmptyGraph /\ rpc = "idle" /\ pidx = 1
    /\ pass = 1 /\ rstats = [created |-> 0, skipped |-> 0] /\ resolved = {}
    /\ lastPivot = NoPivot /\ snapshot = EmptyGraph /\ changed = FALSE
    /\ faulted = FALSE

InitResolve ==
    /\ resolver \in {"page", "code"}
    /\ top_k \in 1..MaxTopK
    /\ vector \in [Docs -> Vectors] \cup {ScenarioVectors}
    /\ order \in {"asc", "desc"}
    /\ nodes = [d \in Docs |-> 1]
    /\ similar = EmptyGraph
    /\ rpc = "start" /\ pidx = 1 /\ pass = 1
    /\ rstats = [created |-> 0, skipped |-> 0]
    /\ resolved = {}
    /\ lastPivot = NoPivot
    /\ snapshot = EmptyGraph
    /\ changed = FALSE /\ faulted = FALSE
    /\ WriterIdle /\ NodesIdle /\ OthersIdle

NextResolve ==
    \/ PageClear \/ CodeBegin \/ PagePivot \/ CodePivot
    \/ ResolveDone \/ Reembed \/ Rerun

SpecResolve == InitResolve /\ [][NextResolve]_vars

\* ------------------------------------------------- the vector store writers
BATCH_SIZE == 4
UPSERT_BATCH_SIZE_PAGES == 10
UPSERT_BATCH_SIZE_FILES == 20

Range(q) == {q[k] : k \in 1..Len(q)}

\* valid_pages[i:i + BATCH_SIZE], the documents numbered from 1
Batch(i) == [k \in 1..Min(BATCH_SIZE, nvalid - i) |-> i + k]

\* The vector the embedding model returns for the text of document d
Embed(d) == 100 + d

\* embedder.embed_batch(texts): one vector per text, in the order of the texts
embed_batch(texts) == [k \in DOMAIN texts |-> Embed(texts[k])]

\* notion_id_to_uuid: str(uuid.UUID(notion_id.replace("-", ""))), and
\* file_to_uuid: the md5 digest of the path laid out as a UUID.  Both read
\* nothing but their argument; UUIDs are numbered, pages from 1000 and
\* files from 2000.
notion_id_to_uuid(d) == 1000 + d

file_to_uuid(d) == 2000 + d

NoFirst == [second |-> FALSE]

\* an id drawn afresh in every call (uuid4) instead of derived from the key
PointId_PerCall(d) == (IF wfirst = NoFirst THEN 3000 ELSE 4000) + d

\* PointStruct(id = ...) of the running writer
PointId(d) == IF writer = "pages" THEN notion_id_to_uuid(d) ELSE file_to_uuid(d)

\* zip paired in reverse: document k with the vector of document n + 1 - k
MakePoints_Reversed(batch, vectors) ==
    [k \in 1..Min(Len(batch), Len(vectors)) |->
        [id |-> batch[k], uuid |-> PointId(batch[k]),
         vector |-> vectors[Len(vectors) + 1 - k]]]

\* "for page, vector in zip(batch_pages, vectors): points.append(PointStruct(...))":
\* id is the document's key (payload), uuid the point id
MakePoints(batch, vectors) ==
    [k \in 1..Min(Len(batch), Len(vectors)) |->
        [id |-> batch[k], uuid |-> PointId(batch[k]), vector |-> vectors[k]]]

\* client.upsert(points = buf): a point replaces the point of the same id
Upsert(coll, buf) ==
    {pt \in coll : \A k \in 1..Len(buf) : buf[k].uuid # pt.uuid} \cup Range(buf)

Ids(buf) == {buf[k].id : k \in 1..Len(buf)}

\* the buffer kept after a flush
AfterFlush_Kept(buf) == buf

\* "points = []" after the upsert of a full buffer, and after giving it up
AfterFlush(buf) == <<>>

\* client.upsert(points = buf) has been called n times
Sent(buf, n) == [d \in DOMAIN wobs.sent |-> wobs.sent[d] + IF d \in Ids(buf) THEN n ELSE 0]

\* the flush test with > in place of >=
FlushDue_Strict(buf, size) == Len(buf) > size

\* "if len(points) >= UPSERT_BATCH_SIZE"
FlushDue(buf, size) == Len(buf) >= size

NoStep == [kind |-> "none"]

\* stats["errors"] += len(points), when a buffer is given up
ErrorsOnDrop_Batch(buf) == BATCH_SIZE

ErrorsOnDrop(buf) == Len(buf)

\* What a chunk iteration did: the embedding call, the flush (none, ok,
\* retried, dropped), the number of upsert calls, the buffer handed to upsert,
\* how the store answered the first call and would answer a second one, and
\* stats["errors"] before the iteration.
Step(embed, chunk, flush, attempts, buffer, first, second) ==
    [kind |-> "chunk", embed |-> embed, chunk |-> chunk, flush |-> flush,
     attempts |-> attempts, buffer |-> buffer, first |-> first, second |-> second,
     errors0 |-> wstats.errors]

\* One iteration of the chunk loop of process_pages.  ef: embed_batch raises;
\* u1, u2: the first, the second call of client.upsert raises.
PagesChunk ==
    /\ wpc = "loop" /\ writer = "pages" /\ widx < nvalid
    /\ widx' = widx + BATCH_SIZE
    /\ \E ef \in BOOLEAN, u1 \in BOOLEAN, u2 \in BOOLEAN :
         LET batch == Batch(widx)
             new   == MakePoints(batch, embed_batch(batch))
             buf   == points \o new
             proc  == wstats.processed + Len(batch)
             made  == [wobs EXCEPT !.made = @ \cup Ids(new)]
         IN  IF ef
             THEN /\ wstats' = [wstats EXCEPT !.errors = @ + BATCH_SIZE]
                  /\ lastStep' = Step("failed", Len(batch), "none", 0, <<>>, "none", "none")
                  /\ wobs' = [wobs EXCEPT !.lost = @ + Len(batch)]
                  /\ UNCHANGED <<points, stored>>
             ELSE IF ~FlushDue(buf, UPSERT_BATCH_SIZE_PAGES)
             THEN /\ points' = buf
                  /\ wstats' = [wstats EXCEPT !.processed = proc]
                  /\ lastStep' = Step("ok", Len(batch), "none", 0, <<>>, "none", "none")
                  /\ wobs' = made
                  /\ UNCHANGED stored
             ELSE IF ~u1
             THEN /\ points' = AfterFlush(buf)
                  /\ stored' = Upsert(stored, buf)
                  /\ wstats' = [wstats EXCEPT !.processed = proc]
                  /\ lastStep' = Step("ok", Len(batch), "ok", 1, buf, "ok", "none")
                  /\ wobs' = [made EXCEPT !.sent = Sent(buf, 1)]
             ELSE IF ~u2
             THEN /\ points' = AfterFlush(buf)
                  /\ stored' = Upsert(stored, buf)
                  /\ wstats' = [wstats EXCEPT !.processed = proc]
                  /\ lastStep' = Step("ok", Len(batch), "retried", 2, buf, "failed", "ok")
                  /\ wobs' = [made EXCEPT !.sent = Sent(buf, 2), !.ufail = TRUE]
             ELSE /\ points' = AfterFlush(buf)
                  /\ wstats' = [processed |-> proc, errors |-> wstats.errors + ErrorsOnDrop(buf)]
                  /\ lastStep' = Step("ok", Len(batch), "dropped", 2, buf, "failed", "failed")
                  /\ wobs' = [made EXCEPT !.sent = Sent(buf, 2), !.ufail = TRUE]
                  /\ UNCHANGED stored
    /\ UNCHANGED <<writer, nvalid, wpc, stale, wfirst, rvars, nvars, nodes, ovars>>

\* One iteration of the chunk loop of process_files: no second upsert call.
FilesChunk ==
    /\ wpc = "loop" /\ writer = "files" /\ widx < nvalid
    /\ widx' = widx + BATCH_SIZE
    /\ \E ef \in BOOLEAN, u1 \in BOOLEAN, u2 \in BOOLEAN :
         LET batch == Batch(widx)
             new   == MakePoints(batch, embed_batch(batch))
             buf   == points \o new
             proc  == wstats.processed + Len(batch)
             made  == [wobs EXCEPT !.made = @ \cup Ids(new)]
         IN  IF ef
             THEN /\ wstats' = [wstats EXCEPT !.errors = @ + BATCH_SIZE]
                  /\ lastStep' = Step("failed", Len(batch), "none", 0, <<>>, "none", "none")
                  /\ wobs' = [wobs EXCEPT !.lost = @ + Len(batch)]
                  /\ UNCHANGED <<points, stored>>
             ELSE IF ~FlushDue(buf, UPSERT_BATCH_SIZE_FILES)
             THEN /\ points' = buf
                  /\ wstats' = [wstats EXCEPT !.processed = proc]
                  /\ lastStep' = Step("ok", Len(batch), "none", 0, <<>>, "none", "none")
                  /\ wobs' = made
                  /\ UNCHANGED stored
             ELSE IF ~u1
             THEN /\ points' = AfterFlush(buf)
                  /\ stored' = Upsert(stored, buf)
                  /\ wstats' = [wstats EXCEPT !.processed = proc]
                  /\ lastStep' = Step("ok", Len(batch), "ok", 1, buf, "ok", "none")
                  /\ wobs' = [made EXCEPT !.sent = Sent(buf, 1)]
             ELSE /\ points' = AfterFlush(buf)
                  /\ wstats' = [processed |-> proc, errors |-> wstats.errors + ErrorsOnDrop(buf)]
                  /\ lastStep' = Step("ok", Len(batch), "dropped", 1, buf, "failed",
                                      IF u2 THEN "failed" ELSE "ok")
                  /\ wobs' = [made EXCEPT !.sent = Sent(buf, 1), !.ufail = TRUE]
                  /\ UNCHANGED stored
    /\ UNCHANGED <<writer, nvalid, wpc, stale, wfirst, rvars, nvars, nodes, ovars>>

\* After the loop: "if points: client.upsert(...)", outside every try, then
\* "return stats".  uf: the upsert raises.
RestFlush(w) ==
    /\ wpc = "loop" /\ writer = w /\ widx >= nvalid
    /\ \E uf \in BOOLEAN :
         IF points = <<>>
         THEN /\ wpc' = "done"
              /\ lastStep' = [kind |-> "rest", flush |-> "none"]
              /\ UNCHANGED <<stored, wobs>>
         ELSE IF uf
         THEN /\ wpc' = "crashed"
              /\ lastStep' = [kind |-> "rest", flush |-> "raised"]
              /\ wobs' = [wobs EXCEPT !.sent = Sent(points, 1), !.ufail = TRUE]
              /\ UNCHANGED stored
         ELSE /\ wpc' = "done"
              /\ stored' = Upsert(stored, points)
              /\ lastStep' = [kind |-> "rest", flush |-> "ok"]
              /\ wobs' = [wobs EXCEPT !.sent = Sent(points, 1)]
    /\ UNCHANGED <<writer, nvalid, widx, points, wstats, stale, wfirst, rvars, nvars, nodes, ovars>>

PagesRest == RestFlush("pages")

FilesRest == RestFlush("files")

\* init_qdrant of vector_store.py, and of code_embedder.py as main calls it
\* (recreate = True): an existing collection is deleted, then the collection
\* is created.
init_qdrant_Keep ==
    /\ wpc = "init"
    /\ wpc' = "loop"
    /\ UNCHANGED <<writer, nvalid, widx, points, wstats, stored, lastStep, wobs,
                   stale, wfirst, rvars, nvars, nodes, ovars>>

init_qdrant ==
    /\ wpc = "init"
    /\ stored' = {}
    /\ wpc' = "loop"
    /\ UNCHANGED <<writer, nvalid, widx, points, wstats, lastStep, wobs,
                   stale, wfirst, rvars, nvars, nodes, ovars>>

\* process_pages / process_files is called a second time on the same
\* documents and the same collection, which is not recreated.  (Explored
\* after a first call without failures.)
Rewrite ==
    /\ wpc = "done" /\ wfirst = NoFirst
    /\ ~wobs.ufail /\ wobs.lost = 0
    /\ wfirst' = [second |-> TRUE, uuids |-> {pt.uuid : pt \in stored}]
    /\ widx' = 0
    /\ points' = <<>>
    /\ wstats' = [processed |-> 0, errors |-> 0]
    /\ wobs' = [made |-> {}, lost |-> 0, sent |-> [d \in 1..nvalid |-> 0], ufail |-> FALSE]
    /\ lastStep' = NoStep
    /\ wpc' = "loop"
    /\ UNCHANGED <<writer, nvalid, stored, stale, rvars, nvars, nodes, ovars>>

\* A point left in the collection by an earlier run, of a document that is
\* no longer part of the corpus (document 0).
StalePoint == [id |-> 0, uuid |-> PointId(0), vector |-> Embed(0)]

InitWrite ==
    /\ writer \in {"pages", "files"}
    /\ nvalid \in 0..MaxValid
    /\ widx = 0
    /\ points = <<>>
    /\ wstats = [processed |-> 0, errors |-> 0]
    /\ wfirst = NoFirst
    /\ stale \in {{}, {StalePoint}}
    /\ stored = stale
    /\ wpc = "init"
    /\ lastStep = NoStep
    /\ wobs = [made |-> {}, lost |-> 0, sent |-> [d \in 1..nvalid |-> 0], ufail |-> FALSE]
    /\ ResolverIdle /\ NodesIdle /\ OthersIdle
    /\ nodes = [d \in Docs |-> 0]

NextWrite == init_qdrant \/ PagesChunk \/ FilesChunk \/ PagesRest \/ FilesRest

SpecWrite == InitWrite /\ [][NextWrite]_vars

NextWriteTwice == NextWrite \/ Rewrite

SpecWriteTwice == InitWrite /\ [][NextWriteTwice]_vars

\* --------------------------------------------------- the node materializers
\* Lists of external ids of length at most n
SeqsUpTo(n) == UNION {[1..m -> Docs] : m \in 0..n}

Injective(q) == \A a, b \in 1..Len(q) : q[a] = q[b] => a = b

\* "if text.strip()" / "if not content.strip(): continue": the document has text
HasText(d) == d \notin empty

\* graph_builder.clear_database: MATCH (n) DETACH DELETE n
clear_database ==
    /\ npc = "clear" /\ builder = "page"
    /\ nodes' = [d \in Docs |-> 0]
    /\ similar' = EmptyGraph
    /\ childOf' = NoEdges
    /\ linksTo' = NoEdges
    /\ npc' = "constraints"
    /\ UNCHANGED <<builder, records, nidx, constraint, nstats, run, wvars,
                   dvars, relstats, ridx, lastRel, ovars,
                   resolver, top_k, vector, order, rpc, pidx, pass, rstats,
                   resolved, lastPivot, snapshot, changed, faulted>>

\* create_constraints / create_code_constraints: CREATE CONSTRAINT ... IF NOT
\* EXISTS ... IS UNIQUE inside try/except; a failure is printed and the run
\* goes on without the constraint.
create_constraints ==
    /\ npc = "constraints"
    /\ \E ok \in BOOLEAN : constraint' = (constraint \/ ok)
    /\ nstats' = [created |-> 0, errors |-> 0]
    /\ nidx' = 1
    /\ npc' = "nodes"
    /\ UNCHANGED <<builder, records, run, dvars, evars, nodes, rvars, wvars, ovars>>

\* One iteration of create_page_nodes: CREATE (p:Page {id: $id, ...}), for
\* every page of the list whatever its title and content.  With the
\* constraint installed a second node of the same id is refused; that
\* exception, like any other of the write (raise), is counted.
create_page_nodes ==
    /\ npc = "nodes" /\ builder = "page" /\ nidx <= Len(records)
    /\ \E raise \in BOOLEAN :
         /\ raise => flaky
         /\ LET id == records[nidx]
            IN  IF raise \/ (constraint /\ nodes[id] > 0)
                THEN /\ nstats' = [nstats EXCEPT !.errors = @ + 1]
                     /\ UNCHANGED nodes
                ELSE /\ nodes' = [nodes EXCEPT ![id] = @ + 1]
                     /\ nstats' = [nstats EXCEPT !.created = @ + 1]
    /\ nidx' = nidx + 1
    /\ UNCHANGED <<builder, records, constraint, npc, run, dvars, evars, rvars, wvars, ovars>>

\* One iteration of create_code_nodes: MERGE (c:CodeFile {path: $path}) SET ...
create_code_nodes ==
    /\ npc = "nodes" /\ builder = "code" /\ nidx <= Len(records)
    /\ LET id == records[nidx]
       IN  nodes' = [nodes EXCEPT ![id] = IF @ = 0 THEN 1 ELSE @]
    /\ nstats' = [nstats EXCEPT !.created = @ + 1]
    /\ nidx' = nidx + 1
    /\ UNCHANGED <<builder, records, constraint, npc, run, dvars, evars, rvars, wvars, ovars>>

\* The loop over the records is exhausted.
NodesDone ==
    /\ npc = "nodes" /\ nidx > Len(records)
    /\ npc' = "done"
    /\ UNCHANGED <<builder, records, nidx, constraint, nstats, run, dvars, evars,
                   nodes, rvars, wvars, ovars>>

\* The builder's main is invoked a second time on the same documents.
Reinvoke ==
    /\ npc = "done" /\ run = 1
    /\ run' = 2
    /\ npc' = IF builder = "page" THEN "clear" ELSE "constraints"
    /\ UNCHANGED <<builder, records, nidx, constraint, nstats, dvars, evars,
                   nodes, rvars, wvars, ovars>>

InitNodes ==
    /\ builder \in {"page", "code"}
    /\ empty \in SUBSET Docs
    /\ records \in SeqsUpTo(MaxRecords)
    \* a point id is derived from the file's path: no two points share a path;
    \* process_files makes no point for a file without content
    /\ builder = "code" => (Injective(records) /\ \A k \in 1..Len(records) : HasText(records[k]))
    /\ flaky = FALSE /\ refs = NoRefs /\ RelIdle
    /\ nidx = 1
    /\ constraint = FALSE
    /\ nstats = [created |-> 0, errors |-> 0]
    /\ npc = IF builder = "page" THEN "clear" ELSE "constraints"
    /\ run = 1
    /\ nodes = [d \in Docs |-> 0]
    /\ ResolverIdle /\ WriterIdle /\ OthersIdle

NextNodes ==
    \/ clear_database \/ create_constraints \/ create_page_nodes
    \/ create_code_nodes \/ NodesDone \/ Reinvoke

SpecNodes == InitNodes /\ [][NextNodes]_vars

\* ------------------------------------------------- graph_builder: relationships
\* page["links"] as a list, here in ascending order of the ids
LinkSeq(S) ==
    [k \in 1..Cardinality(S) |-> CHOOSE x \in S : Cardinality({y \in S : y < x}) = k - 1]

\* the two MATCH clauses dropped: one row whatever nodes exist
NodeRows_Always(a, b) == 1

\* MATCH (x:Page {id: a}) MATCH (y:Page {id: b}): the number of rows
NodeRows(a, b) == nodes[a] * nodes[b]

\* The accumulator of one page of create_relationships; raised says that a
\* write raised, which ends the page.
RelAcc0 == [child |-> childOf, links |-> linksTo, stats |-> relstats, raised |-> FALSE]

\* "if parent_id and parent_id in page_ids": CREATE (child)-[:CHILD_OF]->(parent)
\* for the matched rows.  rf = 1: this write raises.
ChildWrite(page, par, rf, acc) ==
    IF par = 0 \/ par \notin Range(records) THEN acc
    ELSE IF rf = 1 THEN [acc EXCEPT !.raised = TRUE]
    ELSE [acc EXCEPT !.child[<<page, par>>] = @ + NodeRows(page, par),
                     !.stats.child_of = @ + IF NodeRows(page, par) > 0 THEN 1 ELSE 0]

\* "for link_id in page.get('links', [])": CREATE (from)-[:LINKS_TO]->(to) for
\* the matched rows.  rf = k + 1: the write of the k-th link raises.
RECURSIVE LinkWrites(_, _, _, _, _)
LinkWrites(from, lnk, k, rf, acc) ==
    IF k > Len(lnk) \/ acc.raised THEN acc
    ELSE IF lnk[k] \notin Range(records) THEN LinkWrites(from, lnk, k + 1, rf, acc)
    ELSE IF rf = k + 1 THEN [acc EXCEPT !.raised = TRUE]
    ELSE LinkWrites(from, lnk, k + 1, rf,
             [acc EXCEPT !.links[<<from, lnk[k]>>] = @ + NodeRows(from, lnk[k]),
                         !.stats.links_to =
                             @ + IF NodeRows(from, lnk[k]) > 0 THEN 1 ELSE 0])

\* create_relationships up to its loop
RelBegin ==
    /\ npc = "done" /\ builder = "page"
    /\ relstats' = [child_of |-> 0, links_to |-> 0, errors |-> 0]
    /\ ridx' = 1
    /\ lastRel' = NoRel
    /\ npc' = "rels"
    /\ UNCHANGED <<builder, records, nidx, constraint, nstats, run, dvars,
                   childOf, linksTo, nodes, rvars, wvars, ovars>>

\* One iteration of "for page in pages" of create_relationships: one try
\* around the CHILD_OF write and all LINKS_TO writes of the page.
create_relationships ==
    /\ npc = "rels" /\ ridx <= Len(records)
    /\ LET page == records[ridx]
           par  == refs[page].parent
           lnk  == LinkSeq(refs[page].links)
       IN \E rf \in 0..(Len(lnk) + 1) :
            /\ rf # 0 => flaky
            /\ LET r == LinkWrites(page, lnk, 1, rf, ChildWrite(page, par, rf, RelAcc0))
               IN  /\ childOf' = r.child
                   /\ linksTo' = r.links
                   /\ relstats' = IF r.raised THEN [r.stats EXCEPT !.errors = @ + 1]
                                  ELSE r.stats
                   /\ lastRel' = [page |-> page, parent |-> par,
                                  links |-> refs[page].links, raised |-> r.raised,
                                  stats0 |-> relstats]
    /\ ridx' = ridx + 1
    /\ UNCHANGED <<builder, records, nidx, constraint, nstats, npc, run, dvars,
                   nodes, rvars, wvars, ovars>>

\* The loop over the pages is exhausted: create_relationships returns.
RelDone ==
    /\ npc = "rels" /\ ridx > Len(records)
    /\ npc' = "finished"
    /\ UNCHANGED <<builder, records, nidx, constraint, nstats, run, dvars, evars,
                   nodes, rvars, wvars, ovars>>

\* The export holds one page with a parent and links, page 1 (the ids are
\* interchangeable and the list of pages is arbitrary); the others have none.
OnePageRefs ==
    {[NoRefs EXCEPT ![1] = [parent |-> par, links |-> lnk]] :
        par \in 0..NumDocs, lnk \in SUBSET Docs}

\* graph_builder.main: clear_database, create_constraints, create_page_nodes,
\* create_relationships, with transient write failures of the graph store.
InitRel ==
    /\ builder = "page"
    /\ empty = {}
    /\ records \in SeqsUpTo(MaxPages)
    /\ flaky = TRUE
    /\ refs \in OnePageRefs
    /\ RelIdle
    /\ nidx = 1
    /\ constraint = FALSE
    /\ nstats = [created |-> 0, errors |-> 0]
    /\ npc = "clear"
    /\ run = 1
    /\ nodes = [d \in Docs |-> 0]
    /\ ResolverIdle /\ WriterIdle /\ OthersIdle

NextRel ==
    \/ clear_database \/ create_constraints \/ create_page_nodes \/ NodesDone
    \/ RelBegin \/ create_relationships \/ RelDone

SpecRel == InitRel /\ [][NextRel]_vars

\* ------------------------------------------ the full scan of the vector index
\* client.scroll(limit, offset): the points from the cursor on, at most limit
\* of them, and the cursor of the point that follows (0: None, no further
\* page).  gap: the store answers an empty page and a cursor that stands
\* where it stood.
Scroll(off, gap) ==
    LET start == IF off = 0 THEN 1 ELSE off
        last  == Min(start + limit - 1, npoints)
    IN  IF gap THEN [batch |-> <<>>, next |-> start]
        ELSE [batch |-> [k \in 1..(last - start + 1) |-> start + k - 1],
              next  |-> IF last < npoints THEN last + 1 ELSE 0]

\* A gap is possible while points remain and the store has one left.
MayGap(off) == gaps > 0 /\ (IF off = 0 THEN 1 ELSE off) <= npoints

\* the relationships deleted before the scan
ScanBegin_Clear ==
    /\ rpc = "begin"
    /\ offset' = 0
    /\ fetched' = <<>>
    /\ similar' = EmptyGraph
    /\ rpc' = "scan"
    /\ UNCHANGED <<resolver, top_k, vector, order, pidx, pass, rstats, resolved,
                   lastPivot, snapshot, changed, faulted, npoints, limit, gaps,
                   nodes, wvars, nvars, tvars, mvars>>

\* The clients are created; "all_points = []", "offset = None".
ScanBegin ==
    /\ rpc = "begin"
    /\ offset' = 0
    /\ fetched' = <<>>
    /\ rpc' = "scan"
    /\ UNCHANGED <<resolver, top_k, vector, order, similar, pidx, pass, rstats, resolved,
                   lastPivot, snapshot, changed, faulted, npoints, limit, gaps,
                   nodes, wvars, nvars, tvars, mvars>>

\* One iteration of "while True" of similarity_edges.create_similarity_edges:
\* scroll, extend, leave the loop when the returned cursor is None.  raise:
\* the scroll call raises, which ends the program.
PageScroll ==
    /\ rpc = "scan" /\ resolver = "page"
    /\ \E raise \in BOOLEAN, gap \in BOOLEAN :
         /\ gap => (MayGap(offset) /\ ~raise)
         /\ LET r == Scroll(offset, gap)
            IN  IF raise
                THEN /\ rpc' = "crashed"
                     /\ UNCHANGED <<offset, fetched, gaps>>
                ELSE /\ fetched' = fetched \o r.batch
                     /\ offset' = r.next
                     /\ gaps' = IF gap THEN gaps - 1 ELSE gaps
                     /\ rpc' = IF r.next = 0 THEN "start" ELSE "scan"
    /\ UNCHANGED <<resolver, top_k, vector, order, similar, pidx, pass, rstats, resolved,
                   lastPivot, snapshot, changed, faulted, npoints, limit,
                   nodes, wvars, nvars, tvars, mvars>>

\* One iteration of "while True" of code_graph_builder.get_all_code_points:
\* scroll, leave the loop on an empty batch, extend, take the cursor, leave
\* the loop when it is None.
CodeScroll ==
    /\ rpc = "scan" /\ resolver = "code"
    /\ \E raise \in BOOLEAN, gap \in BOOLEAN :
         /\ gap => (MayGap(offset) /\ ~raise)
         /\ LET r == Scroll(offset, gap)
            IN  IF raise
                THEN /\ rpc' = "crashed"
                     /\ UNCHANGED <<offset, fetched, gaps>>
                ELSE IF r.batch = <<>>
                THEN /\ rpc' = "scanned"
                     /\ gaps' = IF gap THEN gaps - 1 ELSE gaps
                     /\ UNCHANGED <<offset, fetched>>
                ELSE /\ fetched' = fetched \o r.batch
                     /\ offset' = r.next
                     /\ rpc' = IF r.next = 0 THEN "scanned" ELSE "scan"
                     /\ UNCHANGED gaps
    /\ UNCHANGED <<resolver, top_k, vector, order, similar, pidx, pass, rstats, resolved,
                   lastPivot, snapshot, changed, faulted, npoints, limit,
                   nodes, wvars, nvars, tvars, mvars>>

\* SIMILAR_TO edges left in the graph by an earlier run
OldGraph == [EmptyGraph EXCEPT ![<<1, 2>>] = [n |-> 1, score |-> 9000]]

InitScan ==
    /\ resolver \in {"page", "code"}
    /\ npoints \in 0..MaxPoints
    /\ limit \in 1..MaxLimit
    /\ gaps \in 0..1
    /\ offset = 0 /\ fetched = <<>>
    /\ similar \in {EmptyGraph, OldGraph}
    /\ snapshot = similar
    /\ rpc = "begin"
    /\ nodes = [d \in Docs |-> 1]
    /\ top_k = 1 /\ vector = [d \in Docs |-> 0] /\ order = "asc"
    /\ pidx = 1 /\ pass = 1 /\ rstats = [created |-> 0, skipped |-> 0]
    /\ resolved = {} /\ lastPivot = NoPivot
    /\ changed = FALSE /\ faulted = FALSE
    /\ WriterIdle /\ NodesIdle /\ TextIdle /\ MainIdle

\* The scan, and for the page resolver the deletion that follows it.
NextScan == ScanBegin \/ PageScroll \/ CodeScroll \/ PageClear

SpecScan == InitScan /\ [][NextScan]_vars

\* ------------------------------------------------------ the text normalizers
\* A string is the sequence of its characters.
Letters == {"a", "b"}

Strings(n) == UNION {[1..k -> Letters] : k \in 0..n}

\* text[:max_chars]
Truncate(str, cap) == IF Len(str) > cap THEN SubSeq(str, 1, cap) ELSE str

\* vector_store.prepare_text_for_embedding: the title, and behind a blank
\* line the content when there is content, cut at the cap.
prepare_text_for_embedding(ttl, content, cap) ==
    Truncate(IF content # <<>> THEN ttl \o <<"\n", "\n">> \o content ELSE ttl, cap)

\* "File: {file_name}\nModule: {module}\n\n"
Header(file_name, module) ==
    <<"F", "i", "l", "e", ":", " ">> \o file_name
    \o <<"\n", "M", "o", "d", "u", "l", "e", ":", " ">> \o module
    \o <<"\n", "\n">>

\* code_embedder.prepare_code_for_embedding: the header and the content, cut
\* at the cap.
prepare_code_for_embedding(content, file_name, module, cap) ==
    Truncate(Header(file_name, module) \o content, cap)

PageText ==
    /\ tpc = "call" /\ normalizer = "page"
    /\ text' = prepare_text_for_embedding(title, body, max_chars)
    /\ tpc' = "done"
    /\ UNCHANGED <<normalizer, title, modname, body, max_chars,
                   rvars, wvars, nvars, nodes, svars, mvars>>

CodeText ==
    /\ tpc = "call" /\ normalizer = "code"
    /\ text' = prepare_code_for_embedding(body, title, modname, max_chars)
    /\ tpc' = "done"
    /\ UNCHANGED <<normalizer, title, modname, body, max_chars,
                   rvars, wvars, nvars, nodes, svars, mvars>>

InitText ==
    /\ normalizer \in {"page", "code"}
    /\ title \in Strings(MaxName)
    /\ modname \in IF normalizer = "code" THEN Strings(MaxName) ELSE {<<>>}
    /\ body \in Strings(MaxBody)
    /\ max_chars \in 1..MaxCap
    /\ text = <<>> /\ tpc = "call"
    /\ ResolverIdle /\ WriterIdle /\ NodesIdle /\ ScanIdle /\ MainIdle
    /\ nodes = [d \in Docs |-> 0]

NextText == PageText \/ CodeText

SpecText == InitText /\ [][NextText]_vars

\* ------------------------------------------------- the start of the programs
Programs == {"vector_store", "code_embedder", "graph_builder",
             "code_graph_builder", "similarity_edges"}

\* What a start depends on: NEO4J_PASSWORD is set, pages.json can be read,
\* Swift files are found, the code collection is in Qdrant, Neo4j answers.
Preconditions == {"password", "pages_json", "swift_files", "collection", "neo4j"}

\* A step that fails, ending the program, when its precondition does not hold
Needs(name, pre) == [name |-> name, needs |-> pre, writes |-> FALSE]
\* A step that neither fails on a precondition nor changes a store
Plain(name) == [name |-> name, needs |-> "none", writes |-> FALSE]
\* A step that issues a write or a delete to the vector index or to the graph
Writes(name) == [name |-> name, needs |-> "none", writes |-> TRUE]

\* vector_store.main with the collection recreated before the pages are read
Startup_WriteFirst(p) ==
    <<Writes("init_qdrant"), Needs("load_pages", "pages_json"),
      Plain("init_model"), Writes("process_pages")>>

\* The steps of each program from its start to its first changes of a store,
\* in the order of the code.
Startup(p) ==
    CASE p = "vector_store" ->
           <<Needs("load_pages", "pages_json"), Plain("init_model"),
             Writes("init_qdrant"), Writes("process_pages")>>
      [] p = "code_embedder" ->
           <<Needs("find_swift_files", "swift_files"), Plain("init_model"),
             Writes("init_qdrant"), Writes("process_files")>>
      [] p = "graph_builder" ->
           <<Needs("NEO4J_PASSWORD", "password"), Needs("load_pages", "pages_json"),
             Needs("init_neo4j", "neo4j"), Writes("clear_database"),
             Writes("create_constraints")>>
      [] p = "code_graph_builder" ->
           <<Needs("init_neo4j", "neo4j"), Needs("init_qdrant", "collection"),
             Writes("create_code_constraints")>>
      [] p = "similarity_edges" ->
           <<Needs("NEO4J_PASSWORD", "password"), Plain("scroll"),
             Writes("delete_similar_to")>>

\* The step the program stands at
MainStep == Startup(program)[mstep]

Advance ==
    /\ mstep' = mstep + 1
    /\ mpc' = IF mstep = Len(Startup(program)) THEN "finished" ELSE "run"

\* A step with a precondition: the exception (in code_embedder.main the
\* return) ends the program when it does not hold.
Check ==
    /\ mpc = "run" /\ MainStep.needs # "none"
    /\ IF env[MainStep.needs]
       THEN Advance
       ELSE mpc' = "aborted" /\ UNCHANGED mstep
    /\ UNCHANGED <<program, env, issued, rvars, wvars, nvars, nodes, svars, tvars>>

Prepare ==
    /\ mpc = "run" /\ MainStep.needs = "none" /\ ~MainStep.writes
    /\ Advance
    /\ UNCHANGED <<program, env, issued, rvars, wvars, nvars, nodes, svars, tvars>>

Change ==
    /\ mpc = "run" /\ MainStep.writes
    /\ issued' = issued + 1
    /\ Advance
    /\ UNCHANGED <<program, env, rvars, wvars, nvars, nodes, svars, tvars>>

InitMain ==
    /\ program \in Programs
    /\ env \in [Preconditions -> BOOLEAN]
    /\ mstep = 1 /\ mpc = "run" /\ issued = 0
    /\ ResolverIdle /\ WriterIdle /\ NodesIdle /\ ScanIdle /\ TextIdle
    /\ nodes = [d \in Docs |-> 0]

NextMain == Check \/ Prepare \/ Change

SpecMain == InitMain /\ [][NextMain]_vars

\* =================================================================== claims
Edge(a, b) == similar[<<a, b>>].n > 0

\* C1: after a resolution pass by either resolver, for every unordered pair
\* {A,B} of documents the graph holds at most one of the SIMILAR_TO edges
\* A->B and B->A.
C1_NoDuplicatePair ==
    rpc = "done" => \A a, b \in Docs : a # b => ~(Edge(a, b) /\ Edge(b, a))

\* C2: after a completed pass by either resolver no SIMILAR_TO edge exists
\* whose pair was not resolved (score >= threshold, within the top-K answer)
\* in that pass: the edges of earlier passes have been removed.
C2_NoStaleEdge ==
    rpc = "done" =>
        \A a, b \in Docs :
            Edge(a, b) => (<<a, b>> \in resolved \/ <<b, a>> \in resolved)

\* C3: direction suppression loses no edge: once a pass has completed without
\* failures, for every pivot P and non-self candidate Q of P's answer with
\* score >= threshold the graph holds a SIMILAR_TO edge between P and Q in
\* one direction.
C3_NoEdgeLost ==
    (rpc = "done" /\ ~faulted) =>
        \A e \in resolved : Edge(e[1], e[2]) \/ Edge(e[2], e[1])

\* C4: when the upsert of a full buffer fails once and a second call would
\* succeed, every point of the buffer is persisted in the vector index and
\* stats["errors"] is unchanged, in both writers.
C4_RetryPersists ==
    (lastStep.kind = "chunk" /\ lastStep.first = "failed" /\ lastStep.second = "ok") =>
        /\ Range(lastStep.buffer) \subseteq stored
        /\ wstats.errors = lastStep.errors0

\* C5: when the upsert of a buffer and its single retry both fail, the buffer
\* is discarded (none of its points is persisted, the buffer is empty),
\* stats["errors"] has grown by exactly the number of points of the buffer,
\* and the writer is still in its chunk loop; no flush makes more than two
\* upsert calls.
C5_DropAfterRetry ==
    lastStep.kind = "chunk" =>
        /\ lastStep.attempts <= 2
        /\ lastStep.flush = "dropped" =>
              /\ points = <<>>
              /\ Range(lastStep.buffer) \cap stored = {}
              /\ wstats.errors = lastStep.errors0 + Len(lastStep.buffer)
              /\ wpc = "loop"

\* C5 witness: process_pages has dropped a buffer after two failed upsert
\* calls and a further chunk is still to be embedded.
C5_Witness ==
    /\ lastStep.kind = "chunk" /\ lastStep.flush = "dropped"
    /\ lastStep.attempts = 2 /\ Len(lastStep.buffer) >= UPSERT_BATCH_SIZE_PAGES
    /\ wpc = "loop" /\ widx < nvalid

\* C6: for every pattern of embedding and upsert failures, the end-of-stream
\* flush included, process_pages and process_files run to completion and
\* return their stats: no failure propagates out of them.
C6_AlwaysCompletes == wpc # "crashed"

\* C7: when the embedding call of a chunk fails, none of the chunk's documents
\* yields a point and stats["errors"] grows by exactly the number of documents
\* of the chunk, also for a final chunk shorter than BATCH_SIZE.
C7_ErrorsCountChunk ==
    (lastStep.kind = "chunk" /\ lastStep.embed = "failed") =>
        wstats.errors = lastStep.errors0 + lastStep.chunk

\* C8: at most TOP_K SIMILAR_TO edge writes are issued while evaluating one
\* pivot's neighbourhood, for every answer the index can give.
C8_AtMostTopKWrites == lastPivot.writes <= top_k

\* C9: running a resolver twice with unchanged vectors and nodes (and no store
\* failure) leaves the same SIMILAR_TO edges, with the same scores, as running
\* it once; no ordered pair ever carries more than one SIMILAR_TO edge.
C9_RerunConverges ==
    /\ \A e \in Pairs : similar[e].n <= 1
    /\ (rpc = "done" /\ pass = 2 /\ ~changed /\ ~faulted) => similar = snapshot

\* C9 witness: a second run over unchanged vectors has completed and the
\* graph holds an edge.
C9_Witness ==
    /\ rpc = "done" /\ pass = 2 /\ ~changed /\ ~faulted
    /\ \E e \in Pairs : similar[e].n = 1

\* C10: after the node-creation step has been applied to a list of records,
\* once or in two invocations, every external id of the list has exactly one
\* node in the graph.
C10_OneNodePerId ==
    npc = "done" => \A k \in 1..Len(records) : nodes[records[k]] = 1

\* The hits of the last pivot's answer that are not the pivot itself and score
\* below (low) or at least (high) the threshold, as positions of the answer.
LowHits ==
    {k \in DOMAIN lastPivot.hits :
        /\ lastPivot.hits[k] # lastPivot.p
        /\ Score(vector[lastPivot.hits[k]], vector[lastPivot.p]) < SIMILARITY_THRESHOLD}

HighHits ==
    {k \in DOMAIN lastPivot.hits :
        /\ lastPivot.hits[k] # lastPivot.p
        /\ Score(vector[lastPivot.hits[k]], vector[lastPivot.p]) >= SIMILARITY_THRESHOLD}

\* C11: for the corpus A < B < C with sim(A,B) = 0.9, sim(A,C) = 0.3,
\* sim(B,C) = 0.92, threshold 0.75 and top_k = 2, a completed pass by either
\* resolver leaves exactly the SIMILAR_TO edges A->B with score 0.9 and B->C
\* with score 0.92: no edge between A and C and no edge in the reverse
\* direction.
C11_ScenarioEdges ==
    (rpc = "done" /\ pass = 1 /\ ~faulted /\ NumDocs = 3 /\ top_k = 2
        /\ vector = ScenarioVectors) =>
        /\ \A e \in Pairs : Edge(e[1], e[2]) <=> e \in {<<1, 2>>, <<2, 3>>}
        /\ similar[<<1, 2>>].score = 9000
        /\ similar[<<2, 3>>].score = 9200

\* C12: every SIMILAR_TO edge written by either resolver has a source key
\* strictly smaller than its target key.
C12_SourceBeforeTarget == \A a, b \in Docs : Edge(a, b) => a < b

\* C13: no SIMILAR_TO edge has the same document as source and as target,
\* and no pivot's evaluation writes an edge to the pivot itself, whatever the
\* answer of the index: the pivot at any rank of it, or absent from it.
C13_NoSelfEdge ==
    /\ \A d \in Docs : ~Edge(d, d)
    /\ lastPivot.p \notin lastPivot.written

\* C13 witness: the pivot stands in its own answer behind another document
\* of the same score, and an edge was written for that pivot.
C13_Witness ==
    /\ lastPivot.p # 0 /\ lastPivot.written # {}
    /\ \E k \in DOMAIN lastPivot.hits : k > 1 /\ lastPivot.hits[k] = lastPivot.p

\* C14: every SIMILAR_TO edge written by either resolver comes from a hit
\* whose score is at least SIMILARITY_THRESHOLD; a hit of the answer with a
\* score below the threshold never produces an edge write and is counted in
\* stats["skipped"].
C14_ThresholdEnforced ==
    (rpc = "pivots" /\ lastPivot.p # 0 /\ ~lastPivot.qfailed) =>
        /\ \A h \in lastPivot.written :
              Score(vector[h], vector[lastPivot.p]) >= SIMILARITY_THRESHOLD
        /\ rstats.skipped = lastPivot.skipped0 + Cardinality(LowHits)

\* C15: a document whose title and body are both empty has no node in the
\* graph store once the node-creation step has run (no point is made for it
\* either, so the code builder never sees it).
C15_EmptySkipped ==
    npc = "done" => \A d \in empty : nodes[d] = 0

\* C16: in both resolvers, when the nearest-neighbour query of a pivot
\* raises, no edge is written for that pivot and the pass continues with the
\* following pivots to its end.
C16_QueryFailureContained ==
    lastPivot.qfailed => (lastPivot.written = {} /\ rpc # "crashed")

\* C17: an exception raised by one SIMILAR_TO write skips that relationship
\* only: every other hit of the pivot's answer that qualifies for a write
\* (in the code resolver: with the pivot's path before the hit's) still has
\* its write issued.
C17_WriteFailureIsolated ==
    (rpc = "pivots" /\ lastPivot.raised) =>
        lastPivot.writes =
            Cardinality({k \in HighHits :
                            resolver = "code" => lastPivot.p < lastPivot.hits[k]})

\* C18: a CHILD_OF or LINKS_TO edge exists only between two ids that both
\* have a Page node; in an iteration of create_relationships where no write
\* raises, stats["errors"] is unchanged, stats["child_of"] grows by one
\* exactly when the page and its parent both have a node, and
\* stats["links_to"] grows by the number of links whose target and the page
\* both have a node: a parent id or link id without a node yields no edge,
\* no count and no error.
C18_BothEndpointsExist ==
    /\ \A e \in Pairs :
          (childOf[e] > 0 \/ linksTo[e] > 0) => (nodes[e[1]] > 0 /\ nodes[e[2]] > 0)
    /\ (npc = "rels" /\ lastRel.page # 0 /\ ~lastRel.raised) =>
          /\ relstats.errors = lastRel.stats0.errors
          /\ relstats.child_of - lastRel.stats0.child_of =
                IF /\ lastRel.parent # 0
                   /\ nodes[lastRel.page] > 0
                   /\ nodes[lastRel.parent] > 0
                THEN 1 ELSE 0
          /\ relstats.links_to - lastRel.stats0.links_to =
                Cardinality({l \in lastRel.links :
                                nodes[lastRel.page] > 0 /\ nodes[l] > 0})

\* C18 witness: a page whose parent is in the export but has no node (its
\* creation was refused) and whose link has a node has been processed: a
\* LINKS_TO edge was counted and no CHILD_OF edge.
C18_Witness ==
    /\ npc = "rels" /\ lastRel.page # 0 /\ ~lastRel.raised
    /\ lastRel.parent # 0 /\ lastRel.parent \in Range(records)
    /\ nodes[lastRel.parent] = 0
    /\ relstats.links_to > 0 /\ relstats.child_of = 0

\* UPSERT_BATCH_SIZE of the running writer
UpsertSize ==
    IF writer = "pages" THEN UPSERT_BATCH_SIZE_PAGES ELSE UPSERT_BATCH_SIZE_FILES

\* C19: in process_pages and process_files, as long as no upsert call has
\* raised, no point is passed to client.upsert more than once and only points
\* of embedded chunks are passed; after every chunk the buffer holds fewer
\* than UPSERT_BATCH_SIZE points (a buffer that reached the size was flushed
\* at once) and every point made so far is either in the buffer or was sent
\* once; when the function has returned every point made was sent in exactly
\* one call.  (The buffer variable still holds the remainder at the return.)
C19_EachPointSentOnce ==
    ~wobs.ufail =>
        /\ \A d \in DOMAIN wobs.sent :
              wobs.sent[d] <= 1 /\ (wobs.sent[d] = 1 => d \in wobs.made)
        /\ wpc = "loop" =>
              /\ Len(points) < UpsertSize
              /\ \A d \in wobs.made : (wobs.sent[d] = 1) # (d \in Ids(points))
        /\ wpc = "done" =>
              /\ \A d \in wobs.made : wobs.sent[d] = 1
              /\ {pt.id : pt \in stored} = wobs.made

\* C19 witness: a writer has returned without any upsert failure after at
\* least one flush of a full buffer and a flush of a remainder.
C19_Witness ==
    /\ wpc = "done" /\ ~wobs.ufail
    /\ lastStep.kind = "rest" /\ lastStep.flush = "ok"
    /\ Cardinality(wobs.made) > UpsertSize

\* C19 as stated: the above, and the buffer is empty when the function
\* returns.
C19_BufferEmptyAtReturn ==
    /\ C19_EachPointSentOnce
    /\ (wpc = "done" /\ ~wobs.ufail) => points = <<>>

\* C20: every point, in the buffer or stored, pairs a document with the
\* vector returned for that document's text (the i-th document of a chunk
\* with the i-th vector); the points of the buffer, and of every buffer
\* handed to upsert, are in the order of the valid documents; the number of
\* points made equals the number of valid documents consumed minus the
\* documents of the chunks whose embedding failed.
C20_PositionalPairing ==
    /\ \A k \in DOMAIN points : points[k].vector = Embed(points[k].id)
    /\ \A pt \in stored : pt.vector = Embed(pt.id)
    /\ \A j, k \in DOMAIN points : j < k => points[j].id < points[k].id
    /\ lastStep.kind = "chunk" =>
          \A j, k \in DOMAIN lastStep.buffer :
              j < k => lastStep.buffer[j].id < lastStep.buffer[k].id
    /\ wpc # "idle" => Cardinality(wobs.made) = Min(widx, nvalid) - wobs.lost

\* C20 witness: one chunk's embedding has failed, points of other chunks
\* were stored, and the buffer holds the points of a further chunk.
C20_Witness ==
    /\ wobs.lost > 0 /\ stored # {} /\ Len(points) > 1

\* C25: in both resolvers the pivot is passed over by the comparison of
\* identifiers, wherever it stands in its answer; a different document whose
\* vector equals the pivot's (so that it scores the pivot's self-score) is
\* not passed over: it is taken through the threshold test and, unless a
\* write raised in that pivot, its edge is written (in the code resolver:
\* when the pivot's path precedes its path) and it is never counted as
\* skipped.
C25_SelfByIdentity ==
    (rpc = "pivots" /\ lastPivot.p # 0 /\ ~lastPivot.qfailed) =>
        /\ lastPivot.p \notin lastPivot.written
        /\ ~lastPivot.raised =>
              \A k \in DOMAIN lastPivot.hits :
                  LET h == lastPivot.hits[k]
                  IN  (h # lastPivot.p /\ vector[h] = vector[lastPivot.p]) =>
                          \/ h \in lastPivot.written
                          \/ resolver = "code" /\ ~(lastPivot.p < h)
        /\ (~lastPivot.raised /\ \A k \in DOMAIN lastPivot.hits :
                                   vector[lastPivot.hits[k]] = vector[lastPivot.p]) =>
              rstats.skipped = lastPivot.skipped0

\* C25 witness: a pivot has written an edge to a different document that
\* has the pivot's own vector, the pivot itself standing in the answer.
C25_Witness ==
    /\ rpc = "pivots" /\ lastPivot.p # 0
    /\ \E k \in DOMAIN lastPivot.hits : lastPivot.hits[k] = lastPivot.p
    /\ \E h \in lastPivot.written : vector[h] = vector[lastPivot.p]

\* C29: after a graph_builder run there is at most one CHILD_OF edge and at
\* most one LINKS_TO edge for every ordered pair of pages, whatever the list
\* of pages (a page id may occur in it more than once).
C29_OneEdgePerPair ==
    npc = "finished" => \A e \in Pairs : childOf[e] <= 1 /\ linksTo[e] <= 1

\* C26: when process_pages / process_files has returned, stats["processed"]
\* is the number of documents whose point is in the vector index: the
\* documents of a buffer that was given up after failed upserts are not
\* counted as processed.
C26_ProcessedIsStored ==
    wpc = "done" => wstats.processed = Cardinality({pt.id : pt \in stored})

\* C27: for every pattern of embedding and upsert failures the buffer holds
\* fewer than UPSERT_BATCH_SIZE points whenever a chunk iteration starts, and
\* neither the buffer nor a buffer handed to upsert ever holds more than
\* UPSERT_BATCH_SIZE + BATCH_SIZE - 1 points.
C27_BufferBounded ==
    /\ (wpc = "loop" /\ widx < nvalid) => Len(points) < UpsertSize
    /\ Len(points) <= UpsertSize + BATCH_SIZE - 1
    /\ lastStep.kind = "chunk" =>
          Len(lastStep.buffer) <= UpsertSize + BATCH_SIZE - 1

\* C27 witness: a buffer that had grown beyond UPSERT_BATCH_SIZE was handed
\* to upsert, the call failed, and a further chunk iteration is starting.
C27_Witness ==
    /\ wpc = "loop" /\ widx < nvalid /\ lastStep.kind = "chunk"
    /\ Len(lastStep.buffer) > UpsertSize /\ lastStep.first = "failed"

\* C21: the point id is a function of the document's key alone, so no
\* document ever has two points in the collection, and a second call of
\* process_pages / process_files on the same documents, against the same
\* collection, leaves exactly the point ids the first call left.
C21_SamePointIds ==
    /\ \A p, q \in stored : p.id = q.id => p = q
    /\ wfirst # NoFirst => {pt.uuid : pt \in stored} = wfirst.uuids

\* C21 witness: a second call has returned after upserting points of
\* documents that the first call had already stored.
C21_Witness ==
    /\ wfirst # NoFirst /\ wpc = "done" /\ ~wobs.ufail
    /\ wobs.made # {} /\ \A d \in wobs.made : wobs.sent[d] = 1

\* C30: from init_qdrant on, and when the writer has returned, every point of
\* the collection belongs to a document embedded in this run: no point that
\* the collection held before the run survives.
C30_OnlyThisRun ==
    wpc \in {"loop", "done", "crashed"} => \A pt \in stored : pt.id \in wobs.made

\* C30 witness: a run that found a point of an earlier corpus in the
\* collection has returned with points stored.
C30_Witness ==
    /\ wpc = "done" /\ stale # {} /\ stored # {}

\* C22: when a full-scan loop has ended without an exception, what it
\* collected is every point of the collection, exactly once, for every store
\* whose scroll ends with a null cursor.
C22_ScanComplete ==
    rpc \in {"start", "scanned", "pivots"} => fetched = [k \in 1..npoints |-> k]

\* C28: in similarity_edges.create_similarity_edges no SIMILAR_TO edge is
\* deleted or created before the scan of the index has completed: while the
\* scan runs, and after a scroll call has raised, the graph is as it was.
C28_DeleteAfterScan ==
    (resolver = "page" /\ rpc \in {"begin", "scan", "crashed"}) => similar = snapshot

\* C28 witness: a scroll call of the page resolver has raised after points
\* had been fetched, and the edge of the earlier run is still in the graph.
C28_Witness ==
    /\ resolver = "page" /\ rpc = "crashed" /\ fetched # <<>>
    /\ similar = OldGraph

\* The header and the body a normalizer is given, in full.
C24_Whole ==
    IF normalizer = "page" THEN title \o <<"\n", "\n">> \o body
    ELSE Header(title, modname) \o body

\* C24: what a text normalizer returns is a prefix of header and body, is not
\* longer than the cap, and is the empty string when title and body are both
\* empty.
C24_NormalizerContract ==
    tpc = "done" =>
        /\ Len(text) <= Len(C24_Whole) /\ text = SubSeq(C24_Whole, 1, Len(text))
        /\ Len(text) <= max_chars
        /\ (title = <<>> /\ body = <<>>) => text = <<>>

\* A precondition on which the start of the program depends does not hold.
C23_Fatal ==
    \E k \in 1..Len(Startup(program)) :
        /\ Startup(program)[k].needs # "none"
        /\ ~env[Startup(program)[k].needs]

\* C23: when a fatal precondition of the start fails, the program ends without
\* having issued a write or a delete to the vector index or to the graph: it
\* never finishes, and whenever it has ended nothing was issued.
C23_AbortBeforeWrite ==
    /\ C23_Fatal => (issued = 0 /\ mpc # "finished")
    /\ mpc = "aborted" => (C23_Fatal /\ issued = 0)

\* C23 witness: graph_builder with pages.json read and Neo4j unreachable has
\* ended in init_neo4j, its third step, with nothing issued.
C23_Witness ==
    /\ program = "graph_builder" /\ mpc = "aborted" /\ mstep = 3
    /\ ~env["neo4j"] /\ issued = 0

====
